---- MODULE Spec2Model ----
(***************************************************************************)
(* A model of the DCSO Bloom filter (package bloom): the BloomFilter       *)
(* struct, Initialize, Fingerprint, Add, Check, CheckFingerprint, Reset,   *)
(* Join, Write and Read.                                                   *)
(*                                                                         *)
(* Representation of Go values:                                            *)
(*   - a uint64 whose full width matters (the element count N, a hash      *)
(*     value, the bit pattern of the float64 p) is a tuple of 8 limbs in   *)
(*     0..255, limb 1 being the least significant; all arithmetic on it    *)
(*     wraps modulo 2^64 as Go's does;                                      *)
(*   - n, k, m, M are naturals (every input enumerated keeps them small);  *)
(*   - a word of the bit array v is the set of its set bit numbers (0..63);*)
(*   - a []byte is a sequence of 0..255, a nil slice is the value NIL.     *)
(***************************************************************************)
EXTENDS Integers, Sequences, FiniteSets, TLC

\* ------------------------------------------------------------------------
\* 64-bit unsigned arithmetic on limbs
\* ------------------------------------------------------------------------
Limbs == 1..8

\* the 8 limbs f(1), .., f(8) as a tuple
Tuple8(f(_)) == <<f(1), f(2), f(3), f(4), f(5), f(6), f(7), f(8)>>

U64Zero == <<0, 0, 0, 0, 0, 0, 0, 0>>

U64One == <<1, 0, 0, 0, 0, 0, 0, 0>>

U64Max == <<255, 255, 255, 255, 255, 255, 255, 255>>

RECURSIVE NatLimb(_, _)
\* limb i (1-based) of the natural x
NatLimb(x, i) == IF i = 1 THEN x % 256 ELSE NatLimb(x \div 256, i - 1)

\* the uint64 holding the natural x (x < 2^31)
U64FromNat(x) == LET limb(i) == NatLimb(x, i) IN Tuple8(limb)

\* TRUE iff the uint64 x is below 2^24, so that it is a natural the model holds
U64IsSmall(x) == \A i \in 4..8 : x[i] = 0

\* the natural held by a small uint64
U64ToNat(x) == x[1] + 256 * x[2] + 65536 * x[3]

RECURSIVE AddCarry(_, _, _)
\* the carry into limb i when adding x and y
AddCarry(x, y, i) ==
    IF i = 1 THEN 0 ELSE (x[i - 1] + y[i - 1] + AddCarry(x, y, i - 1)) \div 256

\* x + y modulo 2^64
U64Add(x, y) ==
    LET limb(i) == (x[i] + y[i] + AddCarry(x, y, i)) % 256 IN Tuple8(limb)

RECURSIVE LessFrom(_, _, _)
LessFrom(x, y, i) ==
    IF i = 0 THEN FALSE
    ELSE IF x[i] # y[i] THEN x[i] < y[i]
    ELSE LessFrom(x, y, i - 1)

\* x < y as unsigned 64-bit integers
U64Less(x, y) == LessFrom(x, y, 8)

RECURSIVE ColumnSum(_, _, _, _)
\* sum of x[j] * y[i - j + 1] for j in 1..jmax : column i of the product
ColumnSum(x, y, i, j) ==
    IF j = 0 THEN 0 ELSE x[j] * y[i - j + 1] + ColumnSum(x, y, i, j - 1)

RECURSIVE MulCarry(_, _, _)
MulCarry(x, y, i) ==
    IF i = 1 THEN 0
    ELSE (ColumnSum(x, y, i - 1, i - 1) + MulCarry(x, y, i - 1)) \div 256

\* x * y modulo 2^64
U64Mul(x, y) ==
    LET limb(i) == (ColumnSum(x, y, i, i) + MulCarry(x, y, i)) % 256 IN Tuple8(limb)

RECURSIVE ModFrom(_, _, _)
\* (x restricted to limbs i..8) modulo d, by long division from the top limb
ModFrom(x, d, i) ==
    IF i = 9 THEN 0 ELSE (ModFrom(x, d, i + 1) * 256 + x[i]) % d

\* x % d for a natural divisor 0 < d < 2^23
U64Mod(x, d) == ModFrom(x, d, 1)

RECURSIVE XorByte(_, _, _)
\* bitwise exclusive or of two bytes, bit by bit (n bits left)
XorByte(a, b, n) ==
    IF n = 0 THEN 0
    ELSE (((a % 2) + (b % 2)) % 2) + 2 * XorByte(a \div 2, b \div 2, n - 1)

\* x ^ uint64(c) for a byte c
U64XorByte(x, c) ==
    LET limb(i) == IF i = 1 THEN XorByte(x[1], c, 8) ELSE x[i] IN Tuple8(limb)

RECURSIVE DivRem(_, _, _)
\* remainder carried into limb i by the long division of x by d
DivRem(x, d, i) ==
    IF i = 8 THEN 0 ELSE (DivRem(x, d, i + 1) * 256 + x[i + 1]) % d

\* x / d (integer division) for a natural divisor 0 < d < 2^23
U64Div(x, d) ==
    LET limb(i) == (DivRem(x, d, i) * 256 + x[i]) \div d IN Tuple8(limb)

\* ------------------------------------------------------------------------
\* Go slices of bytes
\* ------------------------------------------------------------------------
\* a nil []byte
NilSlice == [nil |-> TRUE, bytes |-> <<>>]

\* a non-nil []byte with the given content
Slice(b) == [nil |-> FALSE, bytes |-> b]

\* ------------------------------------------------------------------------
\* float64 values, held by their IEEE-754 bit pattern
\* ------------------------------------------------------------------------
\* 0.1 = 0x3FB999999999999A
P01 == <<154, 153, 153, 153, 153, 153, 185, 63>>

\* 0.5 = 0x3FE0000000000000
P05 == <<0, 0, 0, 0, 0, 0, 224, 63>>

\* +0.0, the zero value of a float64 field
FloatZero == U64Zero

\* x is a NaN: exponent all ones, mantissa not zero
IsNaN(x) ==
    /\ x[8] % 128 = 127
    /\ x[7] \div 16 = 15
    /\ \/ x[7] % 16 # 0
       \/ \E i \in 1..6 : x[i] # 0

\* x is +0.0 or -0.0
IsFloatZero(x) == (x[8] % 128 = 0) /\ (\A i \in 1..7 : x[i] = 0)

\* Go's x != y on float64
FloatNe(x, y) ==
    \/ IsNaN(x)
    \/ IsNaN(y)
    \/ (x # y /\ ~(IsFloatZero(x) /\ IsFloatZero(y)))

\* ------------------------------------------------------------------------
\* hash/fnv New64 (FNV-1): hash = hash * prime, then hash ^= byte
\* ------------------------------------------------------------------------
\* offset64 = 14695981039346656037 = 0xcbf29ce484222325
FnvOffset64 == <<37, 35, 34, 132, 228, 156, 242, 203>>

\* prime64 = 1099511628211 = 0x00000100000001b3
FnvPrime64 == <<179, 1, 0, 0, 0, 1, 0, 0>>

RECURSIVE FnvWrite(_, _, _)
\* the hash after writing bytes i..Len(value) of value
FnvWrite(hash, value, i) ==
    IF i > Len(value) THEN hash
    ELSE FnvWrite(U64XorByte(U64Mul(hash, FnvPrime64), value[i]), value, i + 1)

\* hv := fnv.New64(); hv.Write(value); hv.Sum64()
Sum64(value) == FnvWrite(FnvOffset64, value, 1)

\* ------------------------------------------------------------------------
\* type BloomFilter struct
\* ------------------------------------------------------------------------
\* the zero value of the struct (var filter BloomFilter)
ZeroFilter ==
    [v |-> <<>>, n |-> 0, p |-> FloatZero, k |-> 0, m |-> 0,
     N |-> U64Zero, M |-> 0, Data |-> NilSlice]

\* WordCount rounding down: uint64(float64(m) / 64.0)
WordCountFloor(m) == m \div 64

\* uint64(math.Ceil(float64(m) / 64.0)), exact for the m the model holds
WordCount(m) == (m + 63) \div 64

\* make([]uint64, M): M zeroed words
ZeroWords(M) == [i \in 1..M |-> {}]

\* ------------------------------------------------------------------------
\* Initialize: the float64 formulas, in fixed point with 7 decimals
\* ------------------------------------------------------------------------
\* 0.9 = 0x3FECCCCCCCCCCCCD
P09 == <<205, 204, 204, 204, 204, 204, 236, 63>>

\* 0.01 = 0x3F847AE147AE147B
P001 == <<123, 20, 174, 71, 225, 122, 132, 63>>

\* 0.001 = 0x3F50624DD2F1A9FC
P0001 == <<252, 169, 241, 210, 77, 98, 80, 63>>

\* 0.0001 = 0x3F1A36E2EB1C432D
P00001 == <<45, 67, 28, 235, 226, 54, 26, 63>>

\* the probabilities whose logarithm the model holds
Probabilities == {P01, P05, P09, P001, P0001, P00001}

\* math.Pow(math.Log(2.0), 2.0) = 0.4804530139..., times 10^7
Ln2SqE7 == 4804530

\* math.Log(2) = 0.6931471805..., times 10^7
Ln2E7 == 6931472

\* the fixed-point scale 10^7
E7 == 10000000

\* -math.Log(p) times 10^7, for the probabilities the model draws
NegLnE7(p) ==
    CASE p = P01 -> 23025851
      [] p = P05 -> 6931472
      [] p = P09 -> 1053605
      [] p = P001 -> 46051702
      [] p = P0001 -> 69077553
      [] p = P00001 -> 92103404

\* BitCount rounding the other way: math.Ceil(math.Abs(..)) instead of
\* math.Abs(math.Ceil(..))
BitCountCeil(n, p) ==
    U64ToNat(U64Div(U64Add(U64Mul(U64FromNat(n), U64FromNat(NegLnE7(p))),
                           U64FromNat(Ln2SqE7 - 1)), Ln2SqE7))

\* uint64(math.Abs(math.Ceil(float64(n) * math.Log(p) / ln2^2))): the ceiling
\* of a negative quotient rounds toward zero, so m is the integer part of
\* n * |ln p| / ln2^2
BitCount(n, p) ==
    U64ToNat(U64Div(U64Mul(U64FromNat(n), U64FromNat(NegLnE7(p))), Ln2SqE7))

\* HashRounds without math.Ceil: uint64(math.Log(2) * float64(m) / float64(n))
HashRoundsFloor(n, m) ==
    LET lhs(j) == U64Mul(U64Mul(U64FromNat(j), U64FromNat(n)), U64FromNat(E7))
        rhs == U64Mul(U64FromNat(Ln2E7), U64FromNat(m))
    IN  CHOOSE j \in 0..64 :
            /\ ~U64Less(rhs, lhs(j))
            /\ U64Less(rhs, lhs(j + 1))

\* uint64(math.Ceil(math.Log(2) * float64(m) / float64(n))): the least j with
\* j * n >= ln2 * m
HashRounds(n, m) ==
    LET lhs(j) == U64Mul(U64Mul(U64FromNat(j), U64FromNat(n)), U64FromNat(E7))
        rhs == U64Mul(U64FromNat(Ln2E7), U64FromNat(m))
    IN  CHOOSE j \in 0..64 :
            /\ ~U64Less(lhs(j), rhs)
            /\ (j = 0 \/ U64Less(lhs(j - 1), rhs))

\* func Initialize(n uint64, p float64) BloomFilter
InitializeFilter(n, p) ==
    LET m == BitCount(n, p)
        M == WordCount(m)
    IN  [v |-> ZeroWords(M), n |-> n, p |-> p, k |-> HashRounds(n, m), m |-> m,
         N |-> U64Zero, M |-> M, Data |-> NilSlice]

\* ------------------------------------------------------------------------
\* Fingerprint
\* ------------------------------------------------------------------------
RECURSIVE FingerprintLoop(_, _, _, _, _)
\* rounds i..k-1 of: hn = hn + hm*i; hm = hn; fingerprint[i] = hn % m
FingerprintLoop(hn, hm, i, k, m) ==
    IF i >= k THEN <<>>
    ELSE LET hn2 == U64Add(hn, U64Mul(hm, U64FromNat(i)))
         IN  <<U64Mod(hn2, m)>> \o FingerprintLoop(hn2, hn2, i + 1, k, m)

\* hn % s.m with s.m = 0 is an integer divide by zero (a run-time panic)
FingerprintPanics(s) == s.k > 0 /\ s.m = 0

\* the k positions Fingerprint writes for value (1-based sequence)
Fingerprint(s, value) ==
    LET hn == Sum64(value) IN FingerprintLoop(hn, hn, 0, s.k, s.m)

\* ------------------------------------------------------------------------
\* Add, CheckFingerprint, Check, Reset
\* ------------------------------------------------------------------------
RECURSIVE AddLoopStopsEarly(_, _, _, _, _)
\* AddLoop with the loop bound off by one: the last position is never set
AddLoopStopsEarly(v, fingerprint, i, k, newValue) ==
    IF i >= k THEN [v |-> v, newValue |-> newValue, panic |-> FALSE]
    ELSE LET w == fingerprint[i] \div 64 + 1
             l == fingerprint[i] % 64
         IN  IF w > Len(v) THEN [v |-> v, newValue |-> newValue, panic |-> TRUE]
             ELSE AddLoopStopsEarly([v EXCEPT ![w] = @ \cup {l}], fingerprint, i + 1, k,
                                    newValue \/ l \notin v[w])

RECURSIVE AddLoop(_, _, _, _, _)
\* positions i..k of the fingerprint: test the bit, then set it; an index
\* beyond the bit array panics with the earlier bits already set
AddLoop(v, fingerprint, i, k, newValue) ==
    IF i > k THEN [v |-> v, newValue |-> newValue, panic |-> FALSE]
    ELSE LET w == fingerprint[i] \div 64 + 1
             l == fingerprint[i] % 64
         IN  IF w > Len(v) THEN [v |-> v, newValue |-> newValue, panic |-> TRUE]
             ELSE AddLoop([v EXCEPT ![w] = @ \cup {l}], fingerprint, i + 1, k,
                          newValue \/ l \notin v[w])

\* AddEffect counting every call: s.N++ without the newValue test
AddEffectAlwaysCounts(s, value) ==
    IF FingerprintPanics(s) THEN [s |-> s, panic |-> TRUE]
    ELSE LET r == AddLoop(s.v, Fingerprint(s, value), 1, s.k, FALSE)
         IN  [s |-> [s EXCEPT !.v = r.v,
                              !.N = IF ~r.panic THEN U64Add(@, U64One) ELSE @],
              panic |-> r.panic]

\* func (s *BloomFilter) Add(value []byte): the filter afterwards, and
\* whether the call panicked
AddEffect(s, value) ==
    IF FingerprintPanics(s) THEN [s |-> s, panic |-> TRUE]
    ELSE LET r == AddLoop(s.v, Fingerprint(s, value), 1, s.k, FALSE)
         IN  [s |-> [s EXCEPT !.v = r.v,
                              !.N = IF r.newValue /\ ~r.panic
                                    THEN U64Add(@, U64One) ELSE @],
              panic |-> r.panic]

RECURSIVE CheckLoopFirstOnly(_, _, _, _)
\* CheckLoop returning after the first position it tests
CheckLoopFirstOnly(v, fingerprint, i, k) ==
    IF i > k THEN "true"
    ELSE LET w == fingerprint[i] \div 64 + 1
             l == fingerprint[i] % 64
         IN  IF w > Len(v) THEN "panic"
             ELSE IF l \notin v[w] THEN "false"
             ELSE "true"

RECURSIVE CheckLoop(_, _, _, _)
\* positions i..k of the fingerprint: "false" at the first clear bit
CheckLoop(v, fingerprint, i, k) ==
    IF i > k THEN "true"
    ELSE LET w == fingerprint[i] \div 64 + 1
             l == fingerprint[i] % 64
         IN  IF w > Len(v) THEN "panic"
             ELSE IF l \notin v[w] THEN "false"
             ELSE CheckLoop(v, fingerprint, i + 1, k)

\* func (s *BloomFilter) CheckFingerprint(fingerprint []uint64) bool:
\* "true", "false", or "panic" for an index beyond the bit array
CheckFingerprint(s, fingerprint) == CheckLoop(s.v, fingerprint, 1, s.k)

\* func (s *BloomFilter) Check(value []byte) bool
Check(s, value) ==
    IF FingerprintPanics(s) THEN "panic"
    ELSE CheckFingerprint(s, Fingerprint(s, value))

\* ResetEffect without s.N = 0
ResetEffectKeepsCount(s) ==
    [s EXCEPT !.v = [i \in DOMAIN s.v |-> IF i <= s.M THEN {} ELSE s.v[i]]]

\* func (s *BloomFilter) Reset()
ResetEffect(s) ==
    [s EXCEPT !.v = [i \in DOMAIN s.v |-> IF i <= s.M THEN {} ELSE s.v[i]],
              !.N = U64Zero]

\* ------------------------------------------------------------------------
\* Join
\* ------------------------------------------------------------------------
\* a nil error
NoError == [msg |-> "", field |-> "", self |-> <<>>, other |-> <<>>]

\* fmt.Errorf("filters have different dimensions (<field> = %d vs. %d))", a, b)
DimensionError(field, a, b) ==
    [msg |-> "filters have different dimensions", field |-> field,
     self |-> <<a>>, other |-> <<b>>]

\* fmt.Errorf("addition of member counts would overflow")
OverflowError ==
    [msg |-> "addition of member counts would overflow", field |-> "",
     self |-> <<>>, other |-> <<>>]

\* OrWords with the loop starting at word 1 instead of word 0
OrWordsSkipsFirst(v, v2, M) ==
    [i \in DOMAIN v |-> IF 1 < i /\ i <= M THEN v[i] \cup v2[i] ELSE v[i]]

\* OrWords assigning the argument's word instead of OR-ing it in
OrWordsAssigns(v, v2, M) ==
    [i \in DOMAIN v |-> IF i <= M THEN v2[i] ELSE v[i]]

\* s.v[i] |= s2.v[i] for i < s.M
OrWords(v, v2, M) ==
    [i \in DOMAIN v |-> IF i <= M THEN v[i] \cup v2[i] ELSE v[i]]

\* JoinEffect without the comparison of k
JoinEffectNoKCheck(s, s2) ==
    IF s.n # s2.n THEN [s |-> s, err |-> DimensionError("n", s.n, s2.n)]
    ELSE IF FloatNe(s.p, s2.p) THEN [s |-> s, err |-> DimensionError("p", s.p, s2.p)]
    ELSE IF s.m # s2.m THEN [s |-> s, err |-> DimensionError("m", s.m, s2.m)]
    ELSE IF s.M # s2.M THEN [s |-> s, err |-> DimensionError("M", s.M, s2.M)]
    ELSE LET merged == [s EXCEPT !.v = OrWords(s.v, s2.v, s.M)]
         IN  IF U64Less(U64Add(s.N, s2.N), s.N)
             THEN [s |-> merged, err |-> OverflowError]
             ELSE [s |-> [merged EXCEPT !.N = U64Add(s.N, s2.N)], err |-> NoError]

\* JoinEffect without the overflow test: s.N += s2.N wraps
JoinEffectWraps(s, s2) ==
    IF s.n # s2.n THEN [s |-> s, err |-> DimensionError("n", s.n, s2.n)]
    ELSE IF FloatNe(s.p, s2.p) THEN [s |-> s, err |-> DimensionError("p", s.p, s2.p)]
    ELSE IF s.k # s2.k THEN [s |-> s, err |-> DimensionError("k", s.k, s2.k)]
    ELSE IF s.m # s2.m THEN [s |-> s, err |-> DimensionError("m", s.m, s2.m)]
    ELSE IF s.M # s2.M THEN [s |-> s, err |-> DimensionError("M", s.M, s2.M)]
    ELSE [s |-> [s EXCEPT !.v = OrWords(s.v, s2.v, s.M), !.N = U64Add(s.N, s2.N)],
          err |-> NoError]

\* JoinEffect testing for overflow before it merges the bit arrays
JoinEffectAtomic(s, s2) ==
    IF s.n # s2.n THEN [s |-> s, err |-> DimensionError("n", s.n, s2.n)]
    ELSE IF FloatNe(s.p, s2.p) THEN [s |-> s, err |-> DimensionError("p", s.p, s2.p)]
    ELSE IF s.k # s2.k THEN [s |-> s, err |-> DimensionError("k", s.k, s2.k)]
    ELSE IF s.m # s2.m THEN [s |-> s, err |-> DimensionError("m", s.m, s2.m)]
    ELSE IF s.M # s2.M THEN [s |-> s, err |-> DimensionError("M", s.M, s2.M)]
    ELSE IF U64Less(U64Add(s.N, s2.N), s.N) THEN [s |-> s, err |-> OverflowError]
    ELSE [s |-> [s EXCEPT !.v = OrWords(s.v, s2.v, s.M), !.N = U64Add(s.N, s2.N)],
          err |-> NoError]

\* func (s *BloomFilter) Join(s2 *BloomFilter) error: the receiver afterwards
\* and the error returned
JoinEffect(s, s2) ==
    IF s.n # s2.n THEN [s |-> s, err |-> DimensionError("n", s.n, s2.n)]
    ELSE IF FloatNe(s.p, s2.p) THEN [s |-> s, err |-> DimensionError("p", s.p, s2.p)]
    ELSE IF s.k # s2.k THEN [s |-> s, err |-> DimensionError("k", s.k, s2.k)]
    ELSE IF s.m # s2.m THEN [s |-> s, err |-> DimensionError("m", s.m, s2.m)]
    ELSE IF s.M # s2.M THEN [s |-> s, err |-> DimensionError("M", s.M, s2.M)]
    ELSE LET merged == [s EXCEPT !.v = OrWords(s.v, s2.v, s.M)]
         IN  IF U64Less(U64Add(s.N, s2.N), s.N)
             THEN [s |-> merged, err |-> OverflowError]
             ELSE [s |-> [merged EXCEPT !.N = U64Add(s.N, s2.N)], err |-> NoError]

\* ------------------------------------------------------------------------
\* encoding/binary LittleEndian and the words of the bit array
\* ------------------------------------------------------------------------
\* binary.LittleEndian.PutUint64(bs8, x): byte i holds bits 8(i-1)..8i-1
PutUint64(x) == LET byte(i) == x[i] IN Tuple8(byte)

\* binary.LittleEndian.Uint64(bs8)
Uint64(bs8) == LET limb(i) == bs8[i] IN Tuple8(limb)

RECURSIVE Pow2(_)
Pow2(e) == IF e = 0 THEN 1 ELSE 2 * Pow2(e - 1)

RECURSIVE BitsValue(_, _, _)
\* the value of byte i (1-based) of a word: the sum of 2^j over its set bits
BitsValue(word, i, j) ==
    IF j = 8 THEN 0
    ELSE (IF 8 * (i - 1) + j \in word THEN Pow2(j) ELSE 0) + BitsValue(word, i, j + 1)

\* the uint64 value of a word of the bit array
WordValue(word) == LET limb(i) == BitsValue(word, i, 0) IN Tuple8(limb)

\* the word of the bit array with the uint64 value x
ValueWord(x) == {b \in 0..63 : (x[b \div 8 + 1] \div Pow2(b % 8)) % 2 = 1}

\* ------------------------------------------------------------------------
\* Write
\* ------------------------------------------------------------------------
\* WriteChunks without the attached data
WriteChunksNoData(s) ==
    <<PutUint64(U64One),
      PutUint64(U64FromNat(s.n)),
      PutUint64(s.p),
      PutUint64(U64FromNat(s.k)),
      PutUint64(U64FromNat(s.m)),
      PutUint64(s.N)>>
    \o [i \in 1..s.M |-> PutUint64(WordValue(s.v[i]))]

\* WriteChunks with m written before k
WriteChunksMBeforeK(s) ==
    <<PutUint64(U64One),
      PutUint64(U64FromNat(s.n)),
      PutUint64(s.p),
      PutUint64(U64FromNat(s.m)),
      PutUint64(U64FromNat(s.k)),
      PutUint64(s.N)>>
    \o [i \in 1..s.M |-> PutUint64(WordValue(s.v[i]))]
    \o (IF s.Data.nil THEN <<>> ELSE <<s.Data.bytes>>)

\* the byte slices Write hands to output.Write, in order
WriteChunks(s) ==
    <<PutUint64(U64One),
      PutUint64(U64FromNat(s.n)),
      PutUint64(s.p),
      PutUint64(U64FromNat(s.k)),
      PutUint64(U64FromNat(s.m)),
      PutUint64(s.N)>>
    \o [i \in 1..s.M |-> PutUint64(WordValue(s.v[i]))]
    \o (IF s.Data.nil THEN <<>> ELSE <<s.Data.bytes>>)

RECURSIVE Concat(_)
Concat(chunks) ==
    IF chunks = <<>> THEN <<>> ELSE Head(chunks) \o Concat(Tail(chunks))

\* what a bytes.Buffer holds after func (s *BloomFilter) Write(output io.Writer)
WriteBytes(s) == Concat(WriteChunks(s))

\* errors.New("Cannot write to file!")
CannotWriteError ==
    [msg |-> "Cannot write to file!", field |-> "", self |-> <<>>, other |-> <<>>]

\* the error a writer returns from a call it fails
WriterError ==
    [msg |-> "write failed", field |-> "", self |-> <<>>, other |-> <<>>]

\* an io.Writer with room for cap bytes whose call number errAt (if any)
\* returns an error although it takes the bytes
Writer(cap, errAt) == [cap |-> cap, errAt |-> errAt]

\* the number of bytes of chunk the writer w takes when it holds out; a
\* number less than len(chunk) comes with io.ErrShortWrite
Accepted(chunk, out, w) ==
    IF Len(out) + Len(chunk) <= w.cap THEN Len(chunk) ELSE w.cap - Len(out)

RECURSIVE WriteLoop(_, _, _, _, _)
\* the calls output.Write(chunks[i]), .. on the writer w that holds out: only
\* the result of a bit-array word's write (calls 7 to 6 + M) is looked at,
\* n != 8 returning "Cannot write to file!" and an error with n = 8 that
\* error
WriteLoop(chunks, i, M, out, w) ==
    IF i > Len(chunks) THEN [out |-> out, err |-> NoError]
    ELSE LET n == Accepted(chunks[i], out, w)
             out2 == out \o SubSeq(chunks[i], 1, n)
         IN  IF 6 < i /\ i <= 6 + M /\ n # 8
             THEN [out |-> out2, err |-> CannotWriteError]
             ELSE IF 6 < i /\ i <= 6 + M /\ i = w.errAt
             THEN [out |-> out2, err |-> WriterError]
             ELSE WriteLoop(chunks, i + 1, M, out2, w)

\* func (s *BloomFilter) Write(output io.Writer) error on the writer w: the
\* bytes the writer took and the error returned
WriteEffect(s, w) == WriteLoop(WriteChunks(s), 1, s.M, <<>>, w)

\* ------------------------------------------------------------------------
\* Read
\* ------------------------------------------------------------------------
\* io.ReadFull(input, bs8) at offset off fills bs8
Has8(input, off) == Len(input) >= off + 8

\* the 8 bytes at offset off
Take8(input, off) == SubSeq(input, off + 1, off + 8)

\* the error of an io.ReadFull that finds fewer than 8 bytes at offset off
ReadFullError(input, off) ==
    [msg |-> IF Len(input) <= off THEN "EOF" ELSE "unexpected EOF",
     field |-> "", self |-> <<>>, other |-> <<>>]

\* fmt.Errorf("Invalid version bit (should be 1)")
VersionError ==
    [msg |-> "Invalid version bit (should be 1)", field |-> "",
     self |-> <<>>, other |-> <<>>]

\* the header field at offset off fits a natural of the model
SmallAt(input, off) == U64IsSmall(Uint64(Take8(input, off)))

\* the bit array read from offset 48: the words the input holds, then zeroes
ReadWords(input, M) ==
    [i \in 1..M |-> IF Has8(input, 48 + 8 * (i - 1))
                    THEN ValueWord(Uint64(Take8(input, 48 + 8 * (i - 1))))
                    ELSE {}]

\* ReadEffect going on when the input ends inside the bit array
ReadEffectKeepsShortArray(s, input) ==
    IF ~Has8(input, 0) THEN [s |-> s, err |-> ReadFullError(input, 0)]
    ELSE IF Uint64(Take8(input, 0))[1] # 1 THEN [s |-> s, err |-> VersionError]
    ELSE IF ~Has8(input, 8) THEN [s |-> s, err |-> ReadFullError(input, 8)]
    ELSE LET s1 == [s EXCEPT !.n = U64ToNat(Uint64(Take8(input, 8)))] IN
    IF ~Has8(input, 16) THEN [s |-> s1, err |-> ReadFullError(input, 16)]
    ELSE LET s2 == [s1 EXCEPT !.p = Uint64(Take8(input, 16))] IN
    IF ~Has8(input, 24) THEN [s |-> s2, err |-> ReadFullError(input, 24)]
    ELSE LET s3 == [s2 EXCEPT !.k = U64ToNat(Uint64(Take8(input, 24)))] IN
    IF ~Has8(input, 32) THEN [s |-> s3, err |-> ReadFullError(input, 32)]
    ELSE LET s4 == [s3 EXCEPT !.m = U64ToNat(Uint64(Take8(input, 32)))] IN
    IF ~Has8(input, 40) THEN [s |-> s4, err |-> ReadFullError(input, 40)]
    ELSE LET M == WordCount(s4.m)
             s5 == [s4 EXCEPT !.N = Uint64(Take8(input, 40)),
                              !.M = M,
                              !.v = ReadWords(input, M)]
         IN
    [s |-> [s5 EXCEPT !.Data = Slice(SubSeq(input, 48 + 8 * M + 1, Len(input)))],
     err |-> NoError]

\* ReadEffect comparing the whole version word with 1: flags != 1
ReadEffectWholeWord(s, input) ==
    IF ~Has8(input, 0) THEN [s |-> s, err |-> ReadFullError(input, 0)]
    ELSE IF Uint64(Take8(input, 0)) # U64One THEN [s |-> s, err |-> VersionError]
    ELSE IF ~Has8(input, 8) THEN [s |-> s, err |-> ReadFullError(input, 8)]
    ELSE LET s1 == [s EXCEPT !.n = U64ToNat(Uint64(Take8(input, 8)))] IN
    IF ~Has8(input, 16) THEN [s |-> s1, err |-> ReadFullError(input, 16)]
    ELSE LET s2 == [s1 EXCEPT !.p = Uint64(Take8(input, 16))] IN
    IF ~Has8(input, 24) THEN [s |-> s2, err |-> ReadFullError(input, 24)]
    ELSE LET s3 == [s2 EXCEPT !.k = U64ToNat(Uint64(Take8(input, 24)))] IN
    IF ~Has8(input, 32) THEN [s |-> s3, err |-> ReadFullError(input, 32)]
    ELSE LET s4 == [s3 EXCEPT !.m = U64ToNat(Uint64(Take8(input, 32)))] IN
    IF ~Has8(input, 40) THEN [s |-> s4, err |-> ReadFullError(input, 40)]
    ELSE LET M == WordCount(s4.m)
             s5 == [s4 EXCEPT !.N = Uint64(Take8(input, 40)),
                              !.M = M,
                              !.v = ReadWords(input, M)]
         IN
    IF ~Has8(input, 48 + 8 * (M - 1)) /\ M > 0
    THEN [s |-> s5,
          err |-> ReadFullError(input, 48 + 8 * ((Len(input) - 48) \div 8))]
    ELSE [s |-> [s5 EXCEPT !.Data = Slice(SubSeq(input, 48 + 8 * M + 1, Len(input)))],
          err |-> NoError]

\* func (s *BloomFilter) Read(input io.Reader) error: the receiver afterwards
\* (fields assigned before a failing read stay assigned) and the error
ReadEffect(s, input) ==
    IF ~Has8(input, 0) THEN [s |-> s, err |-> ReadFullError(input, 0)]
    ELSE IF Uint64(Take8(input, 0))[1] # 1 THEN [s |-> s, err |-> VersionError]
    ELSE IF ~Has8(input, 8) THEN [s |-> s, err |-> ReadFullError(input, 8)]
    ELSE LET s1 == [s EXCEPT !.n = U64ToNat(Uint64(Take8(input, 8)))] IN
    IF ~Has8(input, 16) THEN [s |-> s1, err |-> ReadFullError(input, 16)]
    ELSE LET s2 == [s1 EXCEPT !.p = Uint64(Take8(input, 16))] IN
    IF ~Has8(input, 24) THEN [s |-> s2, err |-> ReadFullError(input, 24)]
    ELSE LET s3 == [s2 EXCEPT !.k = U64ToNat(Uint64(Take8(input, 24)))] IN
    IF ~Has8(input, 32) THEN [s |-> s3, err |-> ReadFullError(input, 32)]
    ELSE LET s4 == [s3 EXCEPT !.m = U64ToNat(Uint64(Take8(input, 32)))] IN
    IF ~Has8(input, 40) THEN [s |-> s4, err |-> ReadFullError(input, 40)]
    ELSE LET M == WordCount(s4.m)
             s5 == [s4 EXCEPT !.N = Uint64(Take8(input, 40)),
                              !.M = M,
                              !.v = ReadWords(input, M)]
         IN
    IF ~Has8(input, 48 + 8 * (M - 1)) /\ M > 0
    THEN [s |-> s5,
          err |-> ReadFullError(input, 48 + 8 * ((Len(input) - 48) \div 8))]
    ELSE [s |-> [s5 EXCEPT !.Data = Slice(SubSeq(input, 48 + 8 * M + 1, Len(input)))],
          err |-> NoError]

\* ------------------------------------------------------------------------
\* The program: a caller holding one filter s and a byte buffer; the values
\* it adds, the filters it joins in and the inputs it reads are its inputs
\* ------------------------------------------------------------------------
\* the values the caller adds and checks: "" and "b"
Values == {<<>>, <<98>>}

\* the (n, p) the caller passes to Initialize
InitInputs == {<<20, P01>>, <<2, P01>>, <<1, P09>>}

\* the payloads the caller attaches: "d"
DataValues == {<<100>>}

\* the number of operations of a run
MaxOps == 3

\* the number of operations of a run that serializes
MaxIOOps == 4

\* the lengths at which an input is cut short
TruncLens == {44, 52}
\* a serialized filter with the given fields
Image(version, n, p, k, m, N, words, data) ==
    PutUint64(version) \o PutUint64(U64FromNat(n)) \o PutUint64(p)
    \o PutUint64(U64FromNat(k)) \o PutUint64(U64FromNat(m)) \o PutUint64(N)
    \o Concat([i \in 1..Len(words) |-> PutUint64(WordValue(words[i]))]) \o data

\* the bit array of Initialize(20, 0.1) holding "b": bits 11, 17, 68, 81
WordsOfB == <<{11, 17}, {4, 17}>>

\* an input not produced by Write: Initialize(20, 0.1) holding "b", with the
\* largest element count and the payload "d"
FullImage == Image(U64One, 20, P01, 4, 95, U64Max, WordsOfB, <<100>>)

\* an input not produced by Write whose header holds k = 1 and m = 0, values
\* Initialize derives from no (n, p)
DegenerateImage == Image(U64One, 20, P01, 1, 0, U64Zero, <<>>, <<>>)

\* the first l bytes of input
Truncate(input, l) == SubSeq(input, 1, IF l < Len(input) THEN l ELSE Len(input))

\* the inputs a Read is given besides the written bytes: the image, whole and
\* cut short, and the image with k = 1 and m = 0
CraftedInputs ==
    {FullImage, DegenerateImage} \cup {Truncate(FullImage, l) : l \in TruncLens}

\* the filter Initialize(n, p) after adding the values of the sequence
RECURSIVE Built(_, _, _)
Built(n, p, values) ==
    IF values = <<>> THEN InitializeFilter(n, p)
    ELSE AddEffect(Built(n, p, Tail(values)), Head(values)).s

\* the filter a new variable holds after reading input
Loaded(s, input) == ReadEffect(s, input).s

\* a filter passed to Join: the filter, the values added to it, and whether
\* it was built without Read
JoinArg(s2, values, built) == [s |-> s2, added |-> values, core |-> built]

\* the filters passed to Join: one of the receiver's dimensions holding "",
\* one holding "b" with the largest count, and filters differing from
\* Initialize(20, 0.1) in n, in p, in k, in m and (after a failed Read) in M
JoinArgs ==
    { JoinArg(Built(20, P01, <<<<>>>>), {<<>>}, TRUE),
      JoinArg(Loaded(ZeroFilter, FullImage), {<<98>>}, FALSE),
      JoinArg(Built(2, P01, <<<<98>>>>), {<<98>>}, TRUE),
      JoinArg(Loaded(ZeroFilter, Image(U64One, 20, P05, 4, 95, U64One, WordsOfB, <<>>)),
              {}, FALSE),
      JoinArg(Loaded(ZeroFilter, Image(U64One, 20, P01, 3, 95, U64One, WordsOfB, <<>>)),
              {}, FALSE),
      JoinArg(Loaded(ZeroFilter, Image(U64One, 20, P01, 4, 73, U64One, WordsOfB, <<>>)),
              {}, FALSE),
      JoinArg(Loaded(InitializeFilter(2, P01), Truncate(FullImage, 44)), {}, FALSE) }

\* the filters passed to Join in a run that serializes
IOJoinArgs == {JoinArg(Built(20, P01, <<<<>>>>), {<<>>}, TRUE)}

\* ------------------------------------------------------------------------
\* The bloom command line tool (bloom/manage.go): strings are sequences of
\* bytes, the standard input is a sequence of lines
\* ------------------------------------------------------------------------
\* the global flags of a command line that gives none: --delimiter is ","
NoFlags ==
    [interactive |-> FALSE, split |-> FALSE, each |-> FALSE,
     delimiter |-> <<44>>, fields |-> <<>>, printFields |-> <<>>]

\* strings.Index(str, sep) for a non-empty sep, counted from 1; 0 when sep
\* does not occur
Index(str, sep) ==
    LET at == {q \in 1..(Len(str) - Len(sep) + 1) :
                   SubSeq(str, q, q + Len(sep) - 1) = sep}
    IN  IF at = {} THEN 0 ELSE CHOOSE q \in at : \A r \in at : q <= r

RECURSIVE SplitAt(_, _)
\* strings.Split(str, sep) for a non-empty sep
SplitAt(str, sep) ==
    LET q == Index(str, sep) IN
    IF q = 0 THEN <<str>>
    ELSE <<SubSeq(str, 1, q - 1)>>
         \o SplitAt(SubSeq(str, q + Len(sep), Len(str)), sep)

\* strings.Split(str, sep): an empty sep splits after each character
StringsSplit(str, sep) ==
    IF sep = <<>> THEN [i \in 1..Len(str) |-> <<str[i]>>] ELSE SplitAt(str, sep)

RECURSIVE StringsJoin(_, _)
\* strings.Join(strs, sep)
StringsJoin(strs, sep) ==
    IF strs = <<>> THEN <<>>
    ELSE IF Len(strs) = 1 THEN strs[1]
    ELSE strs[1] \o sep \o StringsJoin(Tail(strs), sep)

\* str is a non-empty run of decimal digits
IsDigits(str) == str # <<>> /\ \A i \in DOMAIN str : str[i] \in 48..57

RECURSIVE DigitsValue(_)
\* the number a run of decimal digits denotes
DigitsValue(str) ==
    IF str = <<>> THEN 0
    ELSE 10 * DigitsValue(SubSeq(str, 1, Len(str) - 1)) + (str[Len(str)] - 48)

\* strconv.Atoi(field): an optional sign and decimal digits
Atoi(field) ==
    LET signed == field # <<>> /\ field[1] \in {43, 45}
        digits == IF signed THEN Tail(field) ELSE field
    IN  IF ~IsDigits(digits) THEN [ok |-> FALSE, num |-> 0]
        ELSE [ok |-> TRUE,
              num |-> IF signed /\ field[1] = 45 THEN 0 - DigitsValue(digits)
                      ELSE DigitsValue(digits)]

\* parseFieldIndexes(str): the numbers of a comma-separated list, or an error
ParseFieldIndexes(str) ==
    LET fields == StringsSplit(str, <<44>>)
        nums == [i \in DOMAIN fields |-> Atoi(fields[i])]
    IN  IF \E i \in DOMAIN nums : ~nums[i].ok THEN [ok |-> FALSE, nums |-> <<>>]
        ELSE [ok |-> TRUE, nums |-> [i \in DOMAIN nums |-> nums[i].num]]

\* parseBloomParams(c): the parameters of the command, or the exit with an
\* error on a list that is not of numbers; --print-fields turns off --each
ParseBloomParams(c) ==
    LET fields == IF c.fields # <<>> THEN ParseFieldIndexes(c.fields)
                  ELSE [ok |-> TRUE, nums |-> <<>>]
        printFields == IF c.printFields # <<>> THEN ParseFieldIndexes(c.printFields)
                       ELSE [ok |-> TRUE, nums |-> <<>>]
    IN  [exit |-> ~fields.ok \/ ~printFields.ok,
         interactive |-> c.interactive,
         split |-> c.split,
         delimiter |-> c.delimiter,
         printEachMatch |-> IF Len(printFields.nums) > 0 THEN FALSE ELSE c.each,
         fields |-> fields.nums,
         printFields |-> printFields.nums]

\* contains(fields, e)
Contains(fields, e) == \E a \in DOMAIN fields : fields[a] = e

\* the test both loops make on the field at zero-based index i of L fields:
\* a non-empty fields list holds neither i nor j = i - L (continue)
Skipped(bloomParams, i, L) ==
    /\ Len(bloomParams.fields) > 0
    /\ ~Contains(bloomParams.fields, i)
    /\ ~Contains(bloomParams.fields, i - L)

RECURSIVE Scanned(_, _)
\* the lines the scanner loop handles: in interactive mode the loop breaks
\* at the first empty line
Scanned(bloomParams, lines) ==
    IF lines = <<>> THEN <<>>
    ELSE IF Head(lines) = <<>> /\ bloomParams.interactive THEN <<>>
    ELSE <<Head(lines)>> \o Scanned(bloomParams, Tail(lines))

RECURSIVE UsedFields(_, _, _)
\* the zero-based indexes, from i on, of the fields of values that a loop
\* does not skip, in order
UsedFields(bloomParams, values, i) ==
    IF i >= Len(values) THEN <<>>
    ELSE (IF Skipped(bloomParams, i, Len(values)) THEN <<>> ELSE <<i>>)
         \o UsedFields(bloomParams, values, i + 1)

\* readValuesIntoFilter's loop body for one line: the fields of the line
\* and the indexes of those passed to filter.Add; without --split the line
\* is added whatever --fields says
AddLine(bloomParams, line) ==
    IF bloomParams.split
    THEN LET values == StringsSplit(line, bloomParams.delimiter)
         IN  [values |-> values, used |-> UsedFields(bloomParams, values, 0)]
    ELSE [values |-> <<line>>, used |-> <<0>>]

\* the values a loop body passes to the filter, in order
Passed(call) == [a \in DOMAIN call.used |-> call.values[call.used[a] + 1]]

RECURSIVE AddAll(_, _)
\* filter.Add([]byte(value)) for each value in order: the filter afterwards
AddAll(filter, values) ==
    IF values = <<>> THEN filter
    ELSE AddAll(AddEffect(filter, Head(values)).s, Tail(values))

\* readValuesIntoFilter(filter, bloomParams): for each line scanned the
\* fields added; nothing is read from a terminal outside interactive mode
ReadValuesIntoFilter(bloomParams, lines, isTerminal) ==
    IF ~bloomParams.interactive /\ isTerminal THEN <<>>
    ELSE LET scanned == Scanned(bloomParams, lines)
         IN  [l \in DOMAIN scanned |-> AddLine(bloomParams, scanned[l])]

\* fmt.Println("Interactive mode: Enter a blank line [by pressing ENTER] to
\* exit (values will not be stored otherwise).")
ReadBanner ==
    <<73, 110, 116, 101, 114, 97, 99, 116, 105, 118, 101, 32, 109, 111,
      100, 101, 58, 32, 69, 110, 116, 101, 114, 32, 97, 32, 98, 108, 97,
      110, 107, 32, 108, 105, 110, 101, 32, 91, 98, 121, 32, 112, 114, 101,
      115, 115, 105, 110, 103, 32, 69, 78, 84, 69, 82, 93, 32, 116, 111,
      32, 101, 120, 105, 116, 32, 40, 118, 97, 108, 117, 101, 115, 32, 119,
      105, 108, 108, 32, 110, 111, 116, 32, 98, 101, 32, 115, 116, 111,
      114, 101, 100, 32, 111, 116, 104, 101, 114, 119, 105, 115, 101, 41,
      46>>

RECURSIVE PrintedValues(_, _, _)
\* the values of the fields --print-fields names, from its a-th number on:
\* a negative number counts from the end, a number out of range is skipped
PrintedValues(printFields, a, valuesToCheck) ==
    IF a > Len(printFields) THEN <<>>
    ELSE LET i == printFields[a]
             j == IF i < 0 THEN i + Len(valuesToCheck) ELSE i
         IN  (IF j >= Len(valuesToCheck) \/ j < 0 THEN <<>>
              ELSE <<valuesToCheck[j + 1]>>)
             \o PrintedValues(printFields, a + 1, valuesToCheck)

RECURSIVE CheckValuesPrintsAgain(_, _, _, _, _, _)
\* CheckValues never setting printed: the line is printed for every match
CheckValuesPrintsAgain(filter, bloomParams, line, valuesToCheck, i, printed) ==
    LET prefix == IF bloomParams.interactive THEN <<62>> ELSE <<>> IN
    IF i >= Len(valuesToCheck) THEN <<>>
    ELSE IF Skipped(bloomParams, i, Len(valuesToCheck))
    THEN CheckValuesPrintsAgain(filter, bloomParams, line, valuesToCheck, i + 1, printed)
    ELSE IF Check(filter, valuesToCheck[i + 1]) # "true"
    THEN CheckValuesPrintsAgain(filter, bloomParams, line, valuesToCheck, i + 1, printed)
    ELSE IF bloomParams.printEachMatch
    THEN <<prefix \o valuesToCheck[i + 1]>>
         \o CheckValuesPrintsAgain(filter, bloomParams, line, valuesToCheck, i + 1, printed)
    ELSE (IF printed THEN <<>>
          ELSE IF Len(bloomParams.printFields) > 0
          THEN <<prefix \o StringsJoin(PrintedValues(bloomParams.printFields, 1,
                                                     valuesToCheck),
                                       bloomParams.delimiter)>>
          ELSE <<prefix \o line>>)
         \o CheckValuesPrintsAgain(filter, bloomParams, line, valuesToCheck, i + 1, printed)

RECURSIVE CheckValues(_, _, _, _, _, _)
\* checkAgainstFilter's loop over valuesToCheck from the value at zero-based
\* index i: the lines it prints
CheckValues(filter, bloomParams, line, valuesToCheck, i, printed) ==
    LET prefix == IF bloomParams.interactive THEN <<62>> ELSE <<>> IN
    IF i >= Len(valuesToCheck) THEN <<>>
    ELSE IF Skipped(bloomParams, i, Len(valuesToCheck))
    THEN CheckValues(filter, bloomParams, line, valuesToCheck, i + 1, printed)
    ELSE IF Check(filter, valuesToCheck[i + 1]) # "true"
    THEN CheckValues(filter, bloomParams, line, valuesToCheck, i + 1, printed)
    ELSE IF bloomParams.printEachMatch
    THEN <<prefix \o valuesToCheck[i + 1]>>
         \o CheckValues(filter, bloomParams, line, valuesToCheck, i + 1, printed)
    ELSE (IF printed THEN <<>>
          ELSE IF Len(bloomParams.printFields) > 0
          THEN <<prefix \o StringsJoin(PrintedValues(bloomParams.printFields, 1,
                                                     valuesToCheck),
                                       bloomParams.delimiter)>>
          ELSE <<prefix \o line>>)
         \o CheckValues(filter, bloomParams, line, valuesToCheck, i + 1, TRUE)

\* checkAgainstFilter's loop body for one line: the lines it prints; the
\* test on --fields is made without --split too, on the line as field 0 of 1
CheckLine(filter, bloomParams, line) ==
    CheckValues(filter, bloomParams, line,
                IF bloomParams.split THEN StringsSplit(line, bloomParams.delimiter)
                ELSE <<line>>,
                0, FALSE)

\* checkAgainstFilter's loop body for one line: the values to check and
\* the indexes of those passed to filter.Check
CheckedOfLine(bloomParams, line) ==
    LET valuesToCheck == IF bloomParams.split
                         THEN StringsSplit(line, bloomParams.delimiter)
                         ELSE <<line>>
    IN  [values |-> valuesToCheck, used |-> UsedFields(bloomParams, valuesToCheck, 0)]

\* fmt.Println("Interactive mode: Enter a blank line [by pressing ENTER] to exit.")
CheckBanner ==
    <<73, 110, 116, 101, 114, 97, 99, 116, 105, 118, 101, 32, 109, 111,
      100, 101, 58, 32, 69, 110, 116, 101, 114, 32, 97, 32, 98, 108, 97,
      110, 107, 32, 108, 105, 110, 101, 32, 91, 98, 121, 32, 112, 114, 101,
      115, 115, 105, 110, 103, 32, 69, 78, 84, 69, 82, 93, 32, 116, 111,
      32, 101, 120, 105, 116, 46>>

\* checkAgainstFilter(path, bloomParams) on the filter loaded from path: for
\* each line scanned, the lines printed for it
CheckAgainstFilter(filter, bloomParams, lines) ==
    LET scanned == Scanned(bloomParams, lines)
    IN  [l \in DOMAIN scanned |-> CheckLine(filter, bloomParams, scanned[l])]

RECURSIVE Flatten(_)
\* the lines of the sequences, in order
Flatten(seqs) == IF seqs = <<>> THEN <<>> ELSE Head(seqs) \o Flatten(Tail(seqs))

VARIABLES s, buf, last, added, core, written, budget, panicked, sample,
          flags, stdout

vars == <<s, buf, last, added, core, written, budget, panicked, sample,
          flags, stdout>>

\* the record of the operation a step performs: its name, argument and
\* error, and the receiver and the values added to it before the call
OpOn(op, arg, err, receiver, values) ==
    [op |-> op, arg |-> arg, err |-> err, pre |-> receiver, preAdded |-> values]

\* the record of an operation on s
Op(op, arg, err) == OpOn(op, arg, err, s, added)

\* the filters a Read is called on: s itself, or a new variable
\* (var newFilter BloomFilter) that the caller goes on with
ReadTargets == {"s", "newFilter"}

\* the states after construction: s := Initialize(n, p) for (n, p) of inputs
ConstructedFrom(inputs, ops) ==
    /\ s \in {InitializeFilter(i[1], i[2]) : i \in inputs}
    /\ buf = <<>>
    /\ last = [op |-> "none", arg |-> <<>>, err |-> NoError,
               pre |-> ZeroFilter, preAdded |-> {}]
    /\ added = {}
    /\ core = TRUE
    /\ written = [s |-> ZeroFilter, core |-> FALSE]
    /\ budget = ops
    /\ panicked = FALSE
    /\ sample = [tried |-> 0, hits |-> 0]
    /\ flags = NoFlags
    /\ stdout = <<>>

\* the states after construction of a run of ops operations
Constructed(ops) == ConstructedFrom(InitInputs, ops)

Init == Constructed(MaxOps)

InitIO == Constructed(MaxIOOps)

\* the caller goes on: operations are left and no call has panicked
Running == budget > 0 /\ ~panicked

\* s = Initialize(n, p)
Initialize(n, p) ==
    /\ Running
    /\ s' = InitializeFilter(n, p)
    /\ added' = {}
    /\ core' = TRUE
    /\ last' = Op("Initialize", <<n, p>>, NoError)
    /\ budget' = budget - 1
    /\ UNCHANGED <<buf, written, panicked, sample, flags, stdout>>

\* s.Add(value)
Add(value) ==
    LET r == AddEffect(s, value) IN
    /\ Running
    /\ s' = r.s
    /\ panicked' = r.panic
    /\ added' = IF r.panic THEN added ELSE added \cup {value}
    /\ last' = Op("Add", value, NoError)
    /\ budget' = budget - 1
    /\ UNCHANGED <<buf, core, written, sample, flags, stdout>>

\* s.Reset()
Reset ==
    /\ Running
    /\ s' = ResetEffect(s)
    /\ added' = {}
    /\ last' = Op("Reset", <<>>, NoError)
    /\ budget' = budget - 1
    /\ UNCHANGED <<buf, core, written, panicked, sample, flags, stdout>>

\* s.Data = data
SetData(data) ==
    /\ Running
    /\ s' = [s EXCEPT !.Data = Slice(data)]
    /\ last' = Op("SetData", data, NoError)
    /\ budget' = budget - 1
    /\ UNCHANGED <<buf, added, core, written, panicked, sample, flags, stdout>>

\* err = s.Join(&s2)
Join(arg) ==
    LET r == JoinEffect(s, arg.s) IN
    /\ Running
    /\ s' = r.s
    /\ core' = (core /\ arg.core)
    /\ last' = Op("Join", arg, r.err)
    /\ budget' = budget - 1
    /\ UNCHANGED <<buf, added, written, panicked, sample, flags, stdout>>

\* err = s.Join(&s)
JoinSelf == Join(JoinArg(s, added, core))

\* var buf bytes.Buffer; s.Write(&buf)
Write ==
    /\ Running
    /\ buf' = WriteBytes(s)
    /\ written' = [s |-> s, core |-> core]
    /\ last' = Op("Write", <<>>, NoError)
    /\ budget' = budget - 1
    /\ UNCHANGED <<s, added, core, panicked, sample, flags, stdout>>

\* err = s.Read(bytes.NewReader(input)), or the same on a new variable
Read(target, input) ==
    LET receiver == IF target = "s" THEN s ELSE ZeroFilter
        r == ReadEffect(receiver, input)
    IN
    /\ Running
    /\ \A off \in {8, 24, 32} : Has8(input, off) => SmallAt(input, off)
    /\ s' = r.s
    /\ added' = {}
    /\ core' = FALSE
    /\ last' = OpOn("Read", input, r.err, receiver, {})
    /\ budget' = budget - 1
    /\ UNCHANGED <<buf, written, panicked, sample, flags, stdout>>

Next ==
    \/ \E i \in InitInputs : Initialize(i[1], i[2])
    \/ \E value \in Values : Add(value)
    \/ Reset
    \/ \E data \in DataValues : SetData(data)
    \/ \E arg \in JoinArgs : Join(arg)
    \/ JoinSelf
    \/ Write
    \/ \E target \in ReadTargets, input \in {buf} \cup CraftedInputs : Read(target, input)

Spec == Init /\ [][Next]_vars

\* a run that serializes: build a filter, write it, read it back
NextIO ==
    \/ \E value \in Values : Add(value)
    \/ Reset
    \/ \E data \in DataValues : SetData(data)
    \/ \E arg \in IOJoinArgs : Join(arg)
    \/ Write
    \/ \E target \in ReadTargets : Read(target, buf)

SpecIO == InitIO /\ [][NextIO]_vars

\* ------------------------------------------------------------------------
\* Copies of a filter: t := s, or s passed by value, copies the struct, and
\* the copy's v is a slice of the same backing array
\* ------------------------------------------------------------------------
\* the number of operations of a run that copies
MaxCopyOps == 3

\* what s holds once its copy t has become t2 through Add, Reset or Join
\* (none of which allocates): the words of the shared array, its own fields
SharedWith(f, t2) == [f EXCEPT !.v = t2.v]

\* t := s; t.Add(value)
AddToCopy(value) ==
    LET r == AddEffect(s, value) IN
    /\ Running
    /\ s' = SharedWith(s, r.s)
    /\ panicked' = r.panic
    /\ last' = Op("AddToCopy", value, NoError)
    /\ budget' = budget - 1
    /\ UNCHANGED <<buf, added, core, written, sample, flags, stdout>>

\* t := s; t.Reset()
ResetCopy ==
    /\ Running
    /\ s' = SharedWith(s, ResetEffect(s))
    /\ last' = Op("ResetCopy", <<>>, NoError)
    /\ budget' = budget - 1
    /\ UNCHANGED <<buf, added, core, written, panicked, sample, flags, stdout>>

\* t := s; err = t.Join(&s2)
JoinIntoCopy(arg) ==
    LET r == JoinEffect(s, arg.s) IN
    /\ Running
    /\ s' = SharedWith(s, r.s)
    /\ last' = Op("JoinIntoCopy", arg, r.err)
    /\ budget' = budget - 1
    /\ UNCHANGED <<buf, added, core, written, panicked, sample, flags, stdout>>

InitCopy == Constructed(MaxCopyOps)

NextCopy ==
    \/ \E value \in Values : Add(value)
    \/ Reset
    \/ \E value \in Values : AddToCopy(value)
    \/ ResetCopy
    \/ \E arg \in JoinArgs : JoinIntoCopy(arg)

SpecCopy == InitCopy /\ [][NextCopy]_vars

\* ------------------------------------------------------------------------
\* Queries: Fingerprint, Check and CheckFingerprint called on the filter
\* ------------------------------------------------------------------------
\* the number of operations of a run that queries
MaxQueryOps == 3

\* the values the caller queries: "", "b" and "a", which it never adds
QueryValues == Values \cup {<<97>>}

\* the record of a query: the value or fingerprint passed, the fingerprint
\* written and the result ("panic" for a call that panics)
Query(op, arg, fingerprint, result) ==
    [op |-> op, arg |-> arg, err |-> NoError, pre |-> s, preAdded |-> added,
     fingerprint |-> fingerprint, result |-> result]

\* fingerprint := make([]uint64, s.k); s.Fingerprint(value, fingerprint)
FingerprintCall(value) ==
    LET panics == FingerprintPanics(s)
        fingerprint == IF panics THEN <<>> ELSE Fingerprint(s, value)
    IN
    /\ Running
    /\ panicked' = panics
    /\ last' = Query("Fingerprint", value, fingerprint, IF panics THEN "panic" ELSE "done")
    /\ budget' = budget - 1
    /\ UNCHANGED <<s, buf, added, core, written, sample, flags, stdout>>

\* s.Check(value)
CheckCall(value) ==
    LET result == Check(s, value) IN
    /\ Running
    /\ panicked' = (result = "panic")
    /\ last' = Query("Check", value, <<>>, result)
    /\ budget' = budget - 1
    /\ UNCHANGED <<s, buf, added, core, written, sample, flags, stdout>>

\* s.Fingerprint(value, fingerprint); s.CheckFingerprint(fingerprint): the
\* fingerprint is computed once and checked by a call of its own
CheckFingerprintCall(value) ==
    LET fingerprint == Fingerprint(s, value)
        result == CheckFingerprint(s, fingerprint)
    IN
    /\ Running
    /\ ~FingerprintPanics(s)
    /\ panicked' = (result = "panic")
    /\ last' = Query("CheckFingerprint", value, fingerprint, result)
    /\ budget' = budget - 1
    /\ UNCHANGED <<s, buf, added, core, written, sample, flags, stdout>>

InitQuery == Constructed(MaxQueryOps)

NextQuery ==
    \/ \E value \in Values : Add(value)
    \/ Reset
    \/ \E arg \in IOJoinArgs : Join(arg)
    \/ \E target \in ReadTargets, input \in CraftedInputs : Read(target, input)
    \/ \E value \in QueryValues : FingerprintCall(value)
    \/ \E value \in QueryValues : CheckCall(value)
    \/ \E value \in QueryValues : CheckFingerprintCall(value)

SpecQuery == InitQuery /\ [][NextQuery]_vars

\* ------------------------------------------------------------------------
\* Parameterization: Initialize over a range of capacities and
\* probabilities, and the fingerprint of "bar"
\* ------------------------------------------------------------------------
\* the number of operations of a run that parameterizes
MaxParamOps == 1

\* the largest capacity of the range
MaxCapacity == 30

\* the (n, p) of TestInitialization, of TestFingerprinting and of the
\* README's example
TestedInputs == {<<10000, P0001>>, <<100000, P001>>, <<100000, P00001>>}

\* the (n, p) passed to Initialize
ParamInputs ==
    {<<n, p>> : n \in 1..MaxCapacity, p \in {P01, P05, P09, P001}} \cup TestedInputs

\* []byte("bar")
Bar == <<98, 97, 114>>

InitParam == ConstructedFrom(ParamInputs, MaxParamOps)

NextParam ==
    \/ \E i \in TestedInputs : Initialize(i[1], i[2])
    \/ FingerprintCall(Bar)

SpecParam == InitParam /\ [][NextParam]_vars

\* ------------------------------------------------------------------------
\* The version gate: Read on inputs with other first words, cut at any length
\* ------------------------------------------------------------------------
\* the number of operations of a run that reads such inputs
MaxGateOps == 1

\* the first words of the inputs: 1, 2, 0, 256 (low byte 0), 257 and
\* 0xFFFFFFFFFFFFFF01 (low byte 1)
GateVersions ==
    {U64One, <<2, 0, 0, 0, 0, 0, 0, 0>>, U64Zero, <<0, 1, 0, 0, 0, 0, 0, 0>>,
     <<1, 1, 0, 0, 0, 0, 0, 0>>, <<1, 255, 255, 255, 255, 255, 255, 255>>}

\* the lengths at which the inputs are cut: inside each header field, at
\* the end of the header, inside the bit array, and not at all
GateLens == {0, 4, 8, 12, 20, 28, 36, 47, 48, 60, 65}

\* an input with first word version: Initialize(20, 0.1) holding "b" with
\* the payload "d", or a filter of no bits
GateImages(version) ==
    {Image(version, 20, P01, 4, 95, U64One, WordsOfB, <<100>>),
     Image(version, 20, P01, 0, 0, U64Zero, <<>>, <<>>)}

\* the inputs read
GateInputs ==
    {Truncate(image, l) : image \in UNION {GateImages(v) : v \in GateVersions},
                          l \in GateLens}

InitGate == Constructed(MaxGateOps)

NextGate == \E target \in ReadTargets, input \in GateInputs : Read(target, input)

SpecGate == InitGate /\ [][NextGate]_vars

\* ------------------------------------------------------------------------
\* Write on a writer that runs out of room
\* ------------------------------------------------------------------------
\* the number of operations of a run that writes to such a writer
MaxSinkOps == 2

\* the room of the writers, in bytes: none, part of the header, the header,
\* part of a word, the header and two words, and more than any filter of
\* the run needs
SinkCaps == {0, 20, 48, 52, 64, 100}

\* the calls that return an error with all bytes taken: the first header
\* write, the first and the second word's write, and the write after them
SinkErrAts == {1, 7, 8, 9}

\* the writers: ones that run out of room, and ones with room that fail a call
Sinks ==
    {Writer(cap, 0) : cap \in SinkCaps} \cup {Writer(100, at) : at \in SinkErrAts}

\* err = s.Write(w) for the writer w; buf holds what w took
WriteTo(w) ==
    LET r == WriteEffect(s, w) IN
    /\ Running
    /\ buf' = r.out
    /\ written' = [s |-> s, core |-> core]
    /\ last' = Op("WriteTo", w, r.err)
    /\ budget' = budget - 1
    /\ UNCHANGED <<s, added, core, panicked, sample, flags, stdout>>

InitSink == Constructed(MaxSinkOps)

NextSink ==
    \/ \E value \in Values : Add(value)
    \/ \E data \in DataValues : SetData(data)
    \/ \E w \in Sinks : WriteTo(w)

SpecSink == InitSink /\ [][NextSink]_vars

\* ------------------------------------------------------------------------
\* The false-positive rate: a filter filled to its capacity, then checked
\* against values that were never added (TestFalsePositives)
\* ------------------------------------------------------------------------
\* the number of values checked
SampleSize == 300

\* the (n, p) of the filter: m = 76, k = 7
RateInput == <<8, P001>>

\* 0x4A7C15, an odd multiplier
TestMultiplier == 4881429

\* test value number j: the 3 bytes of j * 0x4A7C15 modulo 2^24, which differ
\* from one j to the next and follow no pattern of the hash; they stand for
\* the random bytes of GenerateTestValue
TestValue(j) ==
    LET x == (j * TestMultiplier) % (256 * 256 * 256)
    IN <<x % 256, (x \div 256) % 256, x \div (256 * 256)>>

\* filter.Add(testValue) for the next test value, until n values are added
AddNext ==
    /\ Cardinality(added) < s.n
    /\ Add(TestValue(Cardinality(added) + 1))

\* the next value never added is checked and counted:
\* cnt++; if filter.CheckFingerprint(fingerprint) { matches++ }
CheckNext ==
    LET value == TestValue(s.n + sample.tried + 1)
        result == Check(s, value)
    IN
    /\ Running
    /\ Cardinality(added) = s.n
    /\ sample.tried < SampleSize
    /\ sample' = [tried |-> sample.tried + 1,
                  hits |-> sample.hits + (IF result = "true" THEN 1 ELSE 0)]
    /\ panicked' = (result = "panic")
    /\ last' = Query("Check", value, <<>>, result)
    /\ budget' = budget - 1
    /\ UNCHANGED <<s, buf, added, core, written, flags, stdout>>

InitRate == ConstructedFrom({RateInput}, RateInput[1] + SampleSize)

NextRate == AddNext \/ CheckNext

SpecRate == InitRate /\ [][NextRate]_vars

\* ------------------------------------------------------------------------
\* The command line tool: a run is one command, given its global flags, the
\* filter file it names and the lines of its standard input
\* ------------------------------------------------------------------------
\* the number of lines of the standard input
MaxLines == 2

\* the lines: "", "b,,c" (two fields the filter file holds, then one it
\* lacks) and "c,a" (two fields it lacks)
Lines == {<<>>, <<98, 44, 44, 99>>, <<99, 44, 97>>}

\* the standard inputs
Stdins == UNION {[1..len -> Lines] : len \in 0..MaxLines}

\* the values of --fields: none, "1,2", "-1" and "x"
FieldFlags == {<<>>, <<49, 44, 50>>, <<45, 49>>, <<120>>}

\* the values of --print-fields: none and "-1,5"
PrintFieldFlags == {<<>>, <<45, 49, 44, 53>>}

\* the values of --delimiter: the default ","
Delimiters == {<<44>>}

\* the global flags of the command lines
CommandLines ==
    [interactive : BOOLEAN, split : BOOLEAN, each : BOOLEAN,
     delimiter : Delimiters, fields : FieldFlags, printFields : PrintFieldFlags]

\* the values the filter file holds: "b" and ""
FileValues == {<<98>>, <<>>}

\* the filter the file holds: Initialize(20, 0.1) with "b" and "" added
FilterFile == Built(20, P01, <<<<98>>, <<>>>>)

\* the commands that read values into a filter
ReadCommands == {"create", "insert"}

\* exitWithError(err.Error()) for the error of strconv.Atoi
ExitError ==
    [msg |-> "strconv.Atoi: invalid syntax", field |-> "",
     self |-> <<>>, other |-> <<>>]

\* the record of the command a run performs: its name, its standard input
\* and error, the filter before it, and for each line scanned the fields it
\* passed to the filter and the lines it printed
CommandOp(op, lines, err, isTerminal, calls, printed) ==
    [op |-> op, arg |-> lines, err |-> err, pre |-> s, preAdded |-> added,
     isTerminal |-> isTerminal, calls |-> calls, printed |-> printed]

InitCLI ==
    /\ s = FilterFile
    /\ buf = <<>>
    /\ last = [op |-> "none", arg |-> <<>>, err |-> NoError,
               pre |-> ZeroFilter, preAdded |-> {}]
    /\ added = FileValues
    /\ core = TRUE
    /\ written = [s |-> ZeroFilter, core |-> FALSE]
    /\ budget = 1
    /\ panicked = FALSE
    /\ sample = [tried |-> 0, hits |-> 0]
    /\ flags \in CommandLines
    /\ stdout = <<>>

\* bloom --n 20 --p 0.1 create path (createFilter) and bloom insert path
\* (insertIntoFilter): the values read are added to a new filter or to the
\* filter of the file, and the filter is written to the file
ReadCommand(command, lines, isTerminal) ==
    LET bloomParams == ParseBloomParams(flags)
        filter == IF command = "create" THEN InitializeFilter(20, P01) ELSE s
        calls == ReadValuesIntoFilter(bloomParams, lines, isTerminal)
        values == Flatten([l \in DOMAIN calls |-> Passed(calls[l])])
        after == AddAll(filter, values)
    IN
    /\ Running
    /\ IF bloomParams.exit
       THEN /\ s' = s
            /\ buf' = buf
            /\ written' = written
            /\ added' = added
            /\ stdout' = stdout
            /\ last' = CommandOp(command, lines, ExitError, isTerminal, <<>>, <<>>)
       ELSE /\ s' = after
            /\ buf' = WriteBytes(after)
            /\ written' = [s |-> after, core |-> core]
            /\ added' = (IF command = "create" THEN {} ELSE added)
                        \cup {values[a] : a \in DOMAIN values}
            /\ stdout' = IF bloomParams.interactive THEN <<ReadBanner>> ELSE <<>>
            /\ last' = CommandOp(command, lines, NoError, isTerminal, calls, <<>>)
    /\ budget' = budget - 1
    /\ UNCHANGED <<core, panicked, sample, flags>>

\* bloom check path (checkAgainstFilter): the lines are checked against the
\* filter of the file and the matches printed
CheckCommand(lines) ==
    LET bloomParams == ParseBloomParams(flags)
        scanned == Scanned(bloomParams, lines)
        calls == [l \in DOMAIN scanned |-> CheckedOfLine(bloomParams, scanned[l])]
        printed == CheckAgainstFilter(s, bloomParams, lines)
    IN
    /\ Running
    /\ IF bloomParams.exit
       THEN /\ stdout' = stdout
            /\ last' = CommandOp("check", lines, ExitError, FALSE, <<>>, <<>>)
       ELSE /\ stdout' = (IF bloomParams.interactive THEN <<CheckBanner>> ELSE <<>>)
                         \o Flatten(printed)
            /\ last' = CommandOp("check", lines, NoError, FALSE, calls, printed)
    /\ budget' = budget - 1
    /\ UNCHANGED <<s, buf, added, core, written, panicked, sample, flags>>

NextCLI ==
    \/ \E command \in ReadCommands, lines \in Stdins, isTerminal \in BOOLEAN :
           ReadCommand(command, lines, isTerminal)
    \/ \E lines \in Stdins : CheckCommand(lines)

SpecCLI == InitCLI /\ [][NextCLI]_vars

\* ------------------------------------------------------------------------
\* Properties
\* ------------------------------------------------------------------------
\* the bit positions of value under the dimensions of filter f
Positions(f, value) ==
    LET fingerprint == Fingerprint(f, value)
    IN  {fingerprint[i] : i \in 1..Len(fingerprint)}

\* bit position pos is set in the bit array v
BitSet(v, pos) == pos \div 64 + 1 \in DOMAIN v /\ pos % 64 \in v[pos \div 64 + 1]

\* the fields in which two filters differ, as Join compares them
Differing(a, b) ==
    {f \in {"n", "p", "k", "m", "M"} :
        \/ f = "n" /\ a.n # b.n
        \/ f = "p" /\ FloatNe(a.p, b.p)
        \/ f = "k" /\ a.k # b.k
        \/ f = "m" /\ a.m # b.m
        \/ f = "M" /\ a.M # b.M}

\* the named field of a filter
Field(a, f) ==
    CASE f = "n" -> <<a.n>>
      [] f = "p" -> <<a.p>>
      [] f = "k" -> <<a.k>>
      [] f = "m" -> <<a.m>>
      [] f = "M" -> <<a.M>>

\* x + y exceeds 2^64 - 1: the addition carries out of the top limb
SumOverflows(x, y) == AddCarry(x, y, 9) = 1

\* C1: every value added to the filter since it was constructed, reset or
\* read checks true, whatever was added, joined in or attached afterwards
C1_NoFalseNegatives == \A value \in added : Check(s, value) = "true"

\* a second, different value has just been added to a filter with k > 0
C1_Witness ==
    /\ last.op = "Add"
    /\ ~panicked
    /\ s.k > 0
    /\ last.preAdded # {}
    /\ last.arg \notin last.preAdded

\* C2: reading the bytes written from a filter built by Initialize, Add,
\* Join, Reset and data assignment succeeds and reproduces n, p, k, m, M, N,
\* every word of the bit array and the bytes of the attached data
C2_RoundTrip ==
    (last.op = "Read" /\ last.arg = buf /\ written.core) =>
        /\ last.err = NoError
        /\ s.n = written.s.n
        /\ s.p = written.s.p
        /\ s.k = written.s.k
        /\ s.m = written.s.m
        /\ s.M = written.s.M
        /\ s.N = written.s.N
        /\ s.v = written.s.v
        /\ s.Data.bytes = written.s.Data.bytes

\* a filter with set bits, a count and attached data has been read back
C2_Witness ==
    /\ last.op = "Read"
    /\ last.arg = buf
    /\ written.core
    /\ written.s.Data.bytes # <<>>
    /\ written.s.N # U64Zero
    /\ \E i \in DOMAIN written.s.v : written.s.v[i] # {}

\* C3 as claimed: after Reset every word is zero, N is 0 and every value
\* added before the Reset checks false
C3_ResetClearsAsClaimed ==
    last.op = "Reset" =>
        /\ \A i \in DOMAIN s.v : s.v[i] = {}
        /\ s.N = U64Zero
        /\ \A value \in last.preAdded : Check(s, value) = "false"

\* C3 amended: after Reset every word is zero and N is 0; on a filter with
\* k >= 1 every value added before the Reset checks false, and on a filter
\* with k = 0 every value still checks true
C3_ResetClears ==
    last.op = "Reset" =>
        /\ Len(s.v) = s.M
        /\ \A i \in DOMAIN s.v : s.v[i] = {}
        /\ s.N = U64Zero
        /\ \A value \in last.preAdded :
                Check(s, value) = IF s.k >= 1 THEN "false" ELSE "true"

\* a filter with k >= 1 holding added values and a count has been reset
C3_Witness ==
    /\ last.op = "Reset"
    /\ s.k >= 1
    /\ last.preAdded # {}
    /\ last.pre.N # U64Zero

\* C4: a Join of filters differing in n, p, k, m or M returns the dimension
\* error naming a differing field and both its values, and leaves the
\* receiver's bit array and N as they were
C4_JoinPrecondition ==
    (last.op = "Join" /\ Differing(last.pre, last.arg.s) # {}) =>
        /\ last.err.msg = "filters have different dimensions"
        /\ last.err.field \in Differing(last.pre, last.arg.s)
        /\ last.err.self = Field(last.pre, last.err.field)
        /\ last.err.other = Field(last.arg.s, last.err.field)
        /\ s.v = last.pre.v
        /\ s.N = last.pre.N

\* a Join of filters differing only in M has failed, the argument holding bits
C4_Witness ==
    /\ last.op = "Join"
    /\ Differing(last.pre, last.arg.s) = {"M"}
    /\ \E i \in DOMAIN last.arg.s.v : last.arg.s.v[i] # {}

\* C5: after a Join that returns no error, of a filter B none of whose
\* values checked true in the receiver A, every value of A and of B checks
\* true in A and A.N is the exact sum of both counts
C5_JoinDisjoint ==
    (/\ last.op = "Join"
     /\ last.err = NoError
     /\ \A value \in last.arg.added : Check(last.pre, value) # "true") =>
        /\ \A value \in last.preAdded \cup last.arg.added : Check(s, value) = "true"
        /\ s.N = U64Add(last.pre.N, last.arg.s.N)
        /\ ~SumOverflows(last.pre.N, last.arg.s.N)

\* two filters with k > 0, each holding a value the other lacks, were joined
C5_Witness ==
    /\ last.op = "Join"
    /\ last.err = NoError
    /\ s.k > 0
    /\ last.preAdded # {}
    /\ last.arg.added # {}
    /\ \A value \in last.arg.added : Check(last.pre, value) = "false"
    /\ \A value \in last.preAdded : Check(last.arg.s, value) = "false"

C7_JoinNotAtomic ==
    (last.op = "Join" /\ last.err = OverflowError) =>
        /\ DOMAIN s.v = DOMAIN last.pre.v
        /\ \A i \in DOMAIN s.v : s.v[i] = last.pre.v[i] \cup last.arg.s.v[i]
        /\ s.N = last.pre.N

\* a Join has failed on overflow and has changed the receiver's bits
C7_Witness ==
    /\ last.op = "Join"
    /\ last.err = OverflowError
    /\ s.v # last.pre.v

\* C8: Add sets exactly the bits of the value's fingerprint; N is
\* incremented by 1 (as a uint64) if one of them was 0 before the call, and
\* otherwise the bit array and N are unchanged
C8_AddCounts ==
    (last.op = "Add" /\ ~panicked) =>
        LET bits == Positions(last.pre, last.arg) IN
        /\ Len(s.v) = Len(last.pre.v)
        /\ \A pos \in 0..(64 * Len(s.v) - 1) :
                BitSet(s.v, pos) <=> (BitSet(last.pre.v, pos) \/ pos \in bits)
        /\ \A pos \in bits : BitSet(s.v, pos)
        /\ IF \E pos \in bits : ~BitSet(last.pre.v, pos)
           THEN s.N = U64Add(last.pre.N, U64One)
           ELSE s.v = last.pre.v /\ s.N = last.pre.N

\* a value never added, all of whose bits were already set, has been added
\* to a filter with k > 0
C8_Witness ==
    /\ last.op = "Add"
    /\ ~panicked
    /\ s.k > 0
    /\ last.arg \notin last.preAdded
    /\ s.N = last.pre.N
    /\ s.N # U64Zero

\* C9 as claimed: an Add or a Join never leaves N lower than it was
C9_CountNeverDecreases ==
    last.op \in {"Add", "Join"} => ~U64Less(s.N, last.pre.N)

\* C10 as claimed: after every operation M = ceil(m / 64) and the bit array
\* holds M words
C10_ShapeAsClaimed ==
    /\ Len(s.v) = s.M
    /\ 64 * s.M >= s.m
    /\ 64 * s.M < s.m + 64

\* M = ceil(m / 64) for filter f
Shaped(f) == 64 * f.M >= f.m /\ 64 * f.M < f.m + 64

\* C10 amended: the bit array always holds M words; M = ceil(m / 64) holds
\* after construction, after Initialize and after a Read that returns no
\* error, and Add, Reset, Join, Write and data assignment keep it; a Read
\* that returns an error may leave the new m with the old M
C10_Shape ==
    /\ Len(s.v) = s.M
    /\ CASE last.op \in {"none", "Initialize"} -> Shaped(s)
         [] last.op = "Read" -> (last.err = NoError => Shaped(s))
         [] OTHER -> (Shaped(last.pre) => Shaped(s))

\* a filter whose bit count needs a last, partly used word has been read
C10_Witness ==
    /\ last.op = "Read"
    /\ last.err = NoError
    /\ s.m % 64 # 0
    /\ s.M >= 2

\* m is the integer part of n * |ln p| / (ln 2)^2, which is
\* |ceil(n * ln p / (ln 2)^2)|
IntegerPartBits(f) ==
    /\ f.m * Ln2SqE7 <= f.n * NegLnE7(f.p)
    /\ f.n * NegLnE7(f.p) < (f.m + 1) * Ln2SqE7

\* m is ceil(|n * ln p / (ln 2)^2|)
CeilingBits(f) ==
    /\ f.m * Ln2SqE7 >= f.n * NegLnE7(f.p)
    /\ f.n * NegLnE7(f.p) > (f.m - 1) * Ln2SqE7

\* k is ceil(ln 2 * m / n)
CeilingRounds(f) ==
    /\ f.k * f.n * E7 >= Ln2E7 * f.m
    /\ (f.k - 1) * f.n * E7 < Ln2E7 * f.m

\* C11 as claimed: after every operation m = ceil(|n ln p / (ln 2)^2|) and
\* k = ceil(ln 2 * m / n), for the filter's own n > 0 and p in (0, 1)
C11_DerivedAsClaimed ==
    (s.n > 0 /\ s.p \in Probabilities) => (CeilingBits(s) /\ CeilingRounds(s))

\* C11 amended: after construction and Initialize, m is the integer part of
\* n |ln p| / (ln 2)^2 (the ceiling is taken before the absolute value) and
\* k = ceil(ln 2 * m / n); Add, Reset, Join, Write and data assignment leave
\* n, p, k and m as they were; a Read that returns no error leaves the four
\* values its input holds at offsets 8, 16, 24 and 32, derived or not
C11_Derived ==
    CASE last.op \in {"none", "Initialize"} ->
            IntegerPartBits(s) /\ CeilingRounds(s)
      [] last.op = "Read" ->
            (last.err = NoError =>
                /\ s.n = U64ToNat(Uint64(Take8(last.arg, 8)))
                /\ s.p = Uint64(Take8(last.arg, 16))
                /\ s.k = U64ToNat(Uint64(Take8(last.arg, 24)))
                /\ s.m = U64ToNat(Uint64(Take8(last.arg, 32))))
      [] OTHER ->
            /\ s.n = last.pre.n
            /\ s.p = last.pre.p
            /\ s.k = last.pre.k
            /\ s.m = last.pre.m

\* a Read has returned no error on an input whose k and m are not the values
\* derived from its n and p
C11_Witness ==
    /\ last.op = "Read"
    /\ last.err = NoError
    /\ s.n > 0
    /\ s.p \in Probabilities
    /\ ~IntegerPartBits(s)
    /\ ~CeilingRounds(s)

\* C12 as claimed: an Add, Reset or Join on a copy of the filter changes
\* neither the bits set in the filter nor what Check returns on it
C12_CopiesIndependent ==
    last.op \in {"AddToCopy", "ResetCopy", "JoinIntoCopy"} =>
        /\ s.v = last.pre.v
        /\ \A value \in Values : Check(s, value) = Check(last.pre, value)

\* C13 as claimed: on every filter reached through Initialize, Add, Join,
\* Reset and Read, Fingerprint completes, writes k positions, each below m,
\* and leaves every field of the filter as it was
C13_FingerprintNeverFails ==
    last.op = "Fingerprint" =>
        /\ last.result = "done"
        /\ Len(last.fingerprint) = s.k
        /\ \A i \in 1..Len(last.fingerprint) : last.fingerprint[i] < s.m
        /\ s = last.pre

\* C14 as claimed: the fingerprint of "bar" on Initialize(100000, 0.01) is
\* the seven positions 20311, 36825, 412501, 835777, 658914, 853361, 307361
C14_FingerprintOfBar ==
    (/\ last.op = "Fingerprint"
     /\ last.arg = Bar
     /\ s.n = 100000
     /\ s.p = P001) =>
        last.fingerprint = <<20311, 36825, 412501, 835777, 658914, 853361, 307361>>

\* C15: CheckFingerprint returns true exactly when each of the k bits its
\* fingerprint addresses (word position / 64, bit position % 64) is set, and
\* Check(value) returns what CheckFingerprint returns on Fingerprint(value)
C15_CheckFingerprint ==
    /\ (last.op = "CheckFingerprint" /\ last.result # "panic") =>
            /\ last.result \in {"true", "false"}
            /\ Len(last.fingerprint) = s.k
            /\ last.result = "true" <=>
                    \A i \in 1..s.k : BitSet(s.v, last.fingerprint[i])
    /\ (last.op = "Check" /\ last.result # "panic") =>
            /\ last.result \in {"true", "false"}
            /\ last.result = CheckFingerprint(s, Fingerprint(s, last.arg))
            /\ last.result = "true" <=>
                    \A pos \in Positions(s, last.arg) : BitSet(s.v, pos)

\* CheckFingerprint has returned false on a fingerprint whose first bit is
\* set and one of whose later bits is clear
C15_Witness ==
    /\ last.op = "CheckFingerprint"
    /\ last.result = "false"
    /\ s.k > 1
    /\ BitSet(s.v, last.fingerprint[1])

\* the number of bit-array words an input's header announces: ceil(m / 64)
\* for the m at offset 32
AnnouncedWords(input) == (U64ToNat(Uint64(Take8(input, 32))) + 63) \div 64

\* C16: Read returns an error on an input shorter than the 48-byte header
\* (EOF on an empty one) and the version error on an input whose first byte
\* is not 1; an input whose first byte is 1 passes the gate whatever the
\* other seven bytes of its first word are, and is read without error when
\* its header and bit array are complete
C16_VersionGate ==
    last.op = "Read" =>
        LET input == last.arg IN
        /\ Len(input) < 48 => last.err # NoError
        /\ Len(input) = 0 => last.err.msg = "EOF"
        /\ (0 < Len(input) /\ Len(input) < 8) => last.err.msg = "unexpected EOF"
        /\ (Len(input) >= 8 /\ input[1] # 1) => (last.err = VersionError /\ s = last.pre)
        /\ (Len(input) >= 8 /\ input[1] = 1) => last.err # VersionError
        /\ (/\ Len(input) >= 48
            /\ input[1] = 1
            /\ Len(input) >= 48 + 8 * AnnouncedWords(input)) => last.err = NoError

\* an input whose first word is 0xFFFFFFFFFFFFFF01 has been read without
\* error
C16_Witness ==
    /\ last.op = "Read"
    /\ last.err = NoError
    /\ Len(last.arg) >= 48
    /\ Take8(last.arg, 0) = <<1, 255, 255, 255, 255, 255, 255, 255>>
    /\ s.M > 0

\* the number of bytes Write hands to its writer for filter f
OutputLen(f) == 48 + 8 * f.M + Len(f.Data.bytes)

\* the number of calls of output.Write that Write makes for filter f
WriteCalls(f) == 6 + f.M + (IF f.Data.nil THEN 0 ELSE 1)

\* one of the writes of filter f to the writer w is short or returns an error
SomeWriteFails(f, w) ==
    \/ OutputLen(f) > w.cap
    \/ w.errAt \in 1..WriteCalls(f)

\* C17 as claimed: Write returns an error whenever one of its writes to the
\* writer was short or returned an error
C17_WriteReportsErrors ==
    (last.op = "WriteTo" /\ SomeWriteFails(s, last.arg)) => last.err # NoError

RECURSIVE Pow256(_)
Pow256(e) == IF e = 0 THEN 1 ELSE 256 * Pow256(e - 1)

\* the 8 bytes at offset off of out are the natural x, least significant
\* byte first (x < 2^24, so bytes 4 to 8 are 0)
LittleEndianAt(out, off, x) ==
    /\ \A i \in 1..3 : out[off + i] = (x \div Pow256(i - 1)) % 256
    /\ \A i \in 4..8 : out[off + i] = 0

\* bit b of the 64-bit little-endian word at offset off of out
BitAt(out, off, b) == (out[off + b \div 8 + 1] \div Pow2(b % 8)) % 2 = 1

\* C18: a Write to a buffer emits 48 + 8*M + len(Data) bytes: the word 1,
\* n, the bit pattern of p, k, m and N, 8 bytes each and least significant
\* byte first, then the M words of the bit array in index order, then the
\* attached data; M is not in the output, and a Read of the output that
\* returns no error has M = ceil(m / 64), computed from the m it read
C18_Layout ==
    /\ last.op = "Write" =>
            /\ Len(buf) = 48 + 8 * s.M + Len(s.Data.bytes)
            /\ LittleEndianAt(buf, 0, 1)
            /\ LittleEndianAt(buf, 8, s.n)
            /\ \A i \in 1..8 : buf[16 + i] = s.p[i]
            /\ LittleEndianAt(buf, 24, s.k)
            /\ LittleEndianAt(buf, 32, s.m)
            /\ \A i \in 1..8 : buf[40 + i] = s.N[i]
            /\ \A j \in 1..s.M : \A b \in 0..63 :
                    BitAt(buf, 48 + 8 * (j - 1), b) <=> b \in s.v[j]
            /\ SubSeq(buf, 48 + 8 * s.M + 1, Len(buf)) = s.Data.bytes
    /\ (last.op = "Read" /\ last.arg = buf /\ last.err = NoError /\ Len(buf) >= 48) =>
            /\ LittleEndianAt(buf, 32, s.m)
            /\ Shaped(s)
            /\ Len(s.v) = s.M

\* a filter of two words with set bits, a count and attached data has been
\* written
C18_Witness ==
    /\ last.op = "Write"
    /\ s.M = 2
    /\ s.m % 64 # 0
    /\ s.v[1] # {}
    /\ s.v[2] # {}
    /\ s.N # U64Zero
    /\ s.Data.bytes # <<>>

\* the product of two naturals as a uint64
Times(a, b) == U64Mul(U64FromNat(a), U64FromNat(b))

\* C19: Initialize(n, p) returns the filter whose m is the integer part of
\* n |ln p| / (ln 2)^2, whose k is ceil(ln 2 * m / n) and whose M is
\* ceil(m / 64), values that (n, p) determine, with M zeroed words, N = 0
\* and no attached data; Initialize(10000, 0.001) has k = 10, m = 143775
\* and M = 2247, and Initialize(100000, 0.0001) has m = 1917011 and k = 14
C19_Initialize ==
    last.op \in {"none", "Initialize"} =>
        /\ ~U64Less(Times(s.n, NegLnE7(s.p)), Times(s.m, Ln2SqE7))
        /\ U64Less(Times(s.n, NegLnE7(s.p)), Times(s.m + 1, Ln2SqE7))
        /\ ~U64Less(Times(s.k * s.n, E7), Times(Ln2E7, s.m))
        /\ IF s.k = 0 THEN s.m = 0
           ELSE U64Less(Times((s.k - 1) * s.n, E7), Times(Ln2E7, s.m))
        /\ Shaped(s)
        /\ s.v = [i \in 1..s.M |-> {}]
        /\ s.N = U64Zero
        /\ s.Data.bytes = <<>>
        /\ (s.n = 10000 /\ s.p = P0001) => (s.k = 10 /\ s.m = 143775 /\ s.M = 2247)
        /\ (s.n = 100000 /\ s.p = P00001) => (s.m = 1917011 /\ s.k = 14)

\* Initialize(10000, 0.001) has been called on a filter of other dimensions
C19_Witness ==
    /\ last.op = "Initialize"
    /\ s.n = 10000
    /\ s.p = P0001
    /\ last.pre.n # 10000

\* the fixed-point scale 10^4 of the rates
E4 == 10000

RECURSIVE ExpSeries(_, _, _, _)
\* the terms j.. of the series of e^(-num/den), times 10^4: term j is
\* (num/den)^j / j!, added for even j and subtracted for odd j
ExpSeries(num, den, j, term) ==
    IF term = 0 THEN 0
    ELSE (IF j % 2 = 0 THEN term ELSE 0 - term)
         + ExpSeries(num, den, j + 1, (term * num) \div (den * (j + 1)))

\* e^(-num/den) times 10^4
ExpNegE4(num, den) == ExpSeries(num, den, 0, E4)

RECURSIVE PowE4(_, _)
\* (q / 10^4)^k times 10^4
PowE4(q, k) == IF k = 0 THEN E4 ELSE (q * PowE4(q, k - 1)) \div E4

\* (1 - e^(-k*N/m))^k times 10^4 for filter f holding N values
ExpectedRateE4(f, N) == PowE4(E4 - ExpNegE4(f.k * N, f.m), f.k)

\* C20 as claimed: once the whole sample of never-added values is checked,
\* the fraction that checked true is at most twice (1 - e^(-k*N/m))^k
C20_FalsePositiveBound ==
    sample.tried = SampleSize =>
        sample.hits * E4 <= 2 * (ExpectedRateE4(s, Cardinality(added)) + 1) * sample.tried

\* the Join just made found n, p, k, m and M equal
PassedDimensionCheck ==
    last.op = "Join" /\ last.err.msg # "filters have different dimensions"

\* C23: after a Join that passes the dimension check, with or without the
\* overflow error, every word of the receiver is the OR of its word before
\* the call and the argument's word, and every value that checked true on
\* the receiver or on the argument before the call checks true afterwards
C23_JoinIsUnion ==
    PassedDimensionCheck =>
        /\ \A i \in 1..s.M :
              s.v[i] = last.pre.v[i] \cup last.arg.s.v[i]
        /\ \A value \in Values :
              (Check(last.pre, value) = "true" \/ Check(last.arg.s, value) = "true")
                  => Check(s, value) = "true"

\* two filters with k > 0 were joined, each with a bit the other lacks in
\* the same word, and a value checks true that the receiver lacked before
C23_Witness ==
    /\ PassedDimensionCheck
    /\ s.k > 0
    /\ \E i \in 1..s.M :
          /\ last.pre.v[i] \ last.arg.s.v[i] # {}
          /\ last.arg.s.v[i] \ last.pre.v[i] # {}
    /\ \E value \in Values :
          Check(last.pre, value) = "false" /\ Check(s, value) = "true"

\* the bytes a complete input with this header holds before its payload:
\* the 48 bytes of the header and 8 for each word its m announces
CompleteLen(input) ==
    IF Has8(input, 32) THEN 48 + 8 * AnnouncedWords(input) ELSE 48

\* C24: Read returns an error on every input that ends before its header
\* and the whole bit array its header announces; when it returns no error
\* every word of the bit array was read from the input
C24_TruncatedInput ==
    last.op = "Read" =>
        LET input == last.arg IN
        /\ Len(input) < CompleteLen(input) => last.err # NoError
        /\ last.err = NoError =>
              /\ s.M = AnnouncedWords(input)
              /\ DOMAIN s.v = 1..s.M
              /\ \A i \in 1..s.M :
                    /\ Has8(input, 48 + 8 * (i - 1))
                    /\ s.v[i] = ValueWord(Uint64(Take8(input, 48 + 8 * (i - 1))))

\* an input that passes the version gate and ends inside the second word of
\* its bit array has been read: the first word is filled and an error returned
C24_Witness ==
    /\ last.op = "Read"
    /\ Len(last.arg) > 56
    /\ last.arg[1] = 1
    /\ Len(last.arg) < CompleteLen(last.arg)
    /\ s.v[1] # {}
    /\ last.err.msg = "unexpected EOF"

\* the parameters of the command of the run
Params == ParseBloomParams(flags)

\* a command has run without an error
Ran(ops) == last.op \in ops /\ last.err = NoError

\* the lines the command scanned
ScannedLines == Scanned(Params, last.arg)

\* the elements of a sequence
Range(seq) == {seq[a] : a \in DOMAIN seq}

\* a sequence of numbers is strictly increasing
Increasing(seq) == \A a, b \in DOMAIN seq : a < b => seq[a] < seq[b]

\* the zero-based indexes of the fields C21 says are used of L fields
ClaimedFields(L) ==
    IF flags.split /\ Params.fields # <<>>
    THEN {i \in 0..(L - 1) : Contains(Params.fields, i) \/ Contains(Params.fields, i - L)}
    ELSE 0..(L - 1)

\* C21 as claimed: for every line a create, insert or check command scans,
\* the values are the fields of the line split at the delimiter with --split
\* and the whole line without it, and the fields added or checked are, in
\* order, those whose index i or i - L is in a non-empty --fields list given
\* with --split, and all of them otherwise
C21_FieldSelection ==
    Ran({"create", "insert", "check"}) =>
        \A l \in DOMAIN last.calls :
            LET call == last.calls[l]
                line == ScannedLines[l]
            IN  /\ call.values = IF flags.split
                                 THEN StringsSplit(line, flags.delimiter)
                                 ELSE <<line>>
                /\ Range(call.used) = ClaimedFields(Len(call.values))
                /\ Increasing(call.used)

\* the zero-based indexes of the checked fields of a line that pass
\* filter.Check, in field order
Passing(call) ==
    LET passes(i) == Check(s, call.values[i + 1]) = "true"
    IN  SelectSeq(call.used, passes)

\* the --print-fields selection of the fields of a line: the fields the
\* list names, a negative number counting from the end and a number out of
\* range naming none, joined by the delimiter
Selection(values) ==
    LET L == Len(values)
        at == [a \in DOMAIN Params.printFields |->
                  IF Params.printFields[a] < 0 THEN Params.printFields[a] + L
                  ELSE Params.printFields[a]]
        inRange(j) == 0 <= j /\ j < L
        named == SelectSeq(at, inRange)
    IN  StringsJoin([a \in DOMAIN named |-> values[named[a] + 1]], flags.delimiter)

\* what the check command puts before each line it prints: ">" in
\* interactive mode
Prefix == IF flags.interactive THEN <<62>> ELSE <<>>

\* C22: for every line the check command scans, without --each the line, or
\* its --print-fields selection, is printed exactly once when a checked
\* value of the line passes filter.Check and not at all otherwise; with
\* --each and no --print-fields each checked value that passes is printed
\* on a line of its own, in field order; the standard output is these lines
\* in the order of the input, after the banner of interactive mode
C22_MatchPrinting ==
    Ran({"check"}) =>
        /\ DOMAIN last.printed = DOMAIN ScannedLines
        /\ \A l \in DOMAIN last.printed :
              LET call == last.calls[l]
                  passing == Passing(call)
              IN  /\ ~flags.each =>
                        last.printed[l] =
                            IF passing = <<>> THEN <<>>
                            ELSE IF flags.printFields # <<>>
                            THEN <<Prefix \o Selection(call.values)>>
                            ELSE <<Prefix \o ScannedLines[l]>>
                  /\ (flags.each /\ flags.printFields = <<>>) =>
                        last.printed[l] =
                            [a \in DOMAIN passing |->
                                Prefix \o call.values[passing[a] + 1]]
        /\ stdout = (IF flags.interactive THEN <<CheckBanner>> ELSE <<>>)
                    \o Flatten(last.printed)

\* a check without --each has scanned a line with two checked values that
\* pass and has printed it once, and a line with none and printed nothing
C22_Witness ==
    /\ Ran({"check"})
    /\ ~flags.each
    /\ flags.split
    /\ \E l \in DOMAIN last.printed :
          Len(Passing(last.calls[l])) = 2 /\ Len(last.printed[l]) = 1
    /\ \E l \in DOMAIN last.printed :
          /\ last.calls[l].used # <<>>
          /\ Passing(last.calls[l]) = <<>>
          /\ last.printed[l] = <<>>

====
